---- MODULE Spec2Model ----
(***************************************************************************)
(* A model of the paper-record store of the MCP research server: the Topic *)
(* Namer, the per-topic JSON collection files, the search upsert, the      *)
(* cross-topic lookup, the statistics / title-search / export views, the   *)
(* file-system conditions under which a save or a listing fails, and two   *)
(* searches that run at the same time.                                     *)
(*                                                                         *)
(* Python strings are modelled as sequences of one-character strings, so   *)
(* that lower(), strip(), replace(), split(), title() and "in" are         *)
(* computed character by character as the interpreter computes them.       *)
(* None is the empty sequence and a present optional value x is <<x>>.     *)
(* A call that raises is a result whose exc field names the exception.     *)
(***************************************************************************)
EXTENDS Integers, Sequences, FiniteSets, TLC

VARIABLES
    dirs,        \* names of the directories that exist under papers_dir
    files,       \* directory name -> contents of its papers_info.json
    clock,       \* datetime.now(), advanced by every save
    res,         \* the last call: its arguments and what it returned
    fault,       \* the condition of the file system under papers_dir
    inflight,    \* process -> the search it is in the middle of
    stored,      \* history: the record first saved under (directory, id)
    lastSaved,   \* history: per id, the record the latest save wrote
    lastMeta,    \* history: per directory, the metadata the latest save set
    config       \* the global _config of config.py: None or the installed ServerConfig

vars == <<dirs, files, clock, res, fault, inflight, stored, lastSaved, lastMeta, config>>

(***************************************************************************)
(* Bounds of the model.                                                    *)
(***************************************************************************)
\* the number of saves (searches) in one run
MaxSaves == 2

(***************************************************************************)
(* Characters and the str methods the code uses.                           *)
(***************************************************************************)
UpperCase == <<"A","B","C","D","E","F","G","H","I","J","K","L","M","N","O","P","Q","R","S","T","U","V","W","X","Y","Z">>
LowerCase == <<"a","b","c","d","e","f","g","h","i","j","k","l","m","n","o","p","q","r","s","t","u","v","w","x","y","z">>
Digits == <<"0","1","2","3","4","5","6","7","8","9">>
\* the characters of the model in code-point order
Ascii == <<" ","&","-",".","/","0","1","2","3","4","5","6","7","8","9",":","?","A","B","C","D","E","F","G","H","I","J","K","L","M","N","O","P","Q","R","S","T","U","V","W","X","Y","Z","_","a","b","c","d","e","f","g","h","i","j","k","l","m","n","o","p","q","r","s","t","u","v","w","x","y","z">>
Whitespace == {" "}

None == <<>>
Some(x) == <<x>>

Range(s) == {s[i] : i \in 1..Len(s)}
IndexOf(seq, c) == CHOOSE i \in 1..Len(seq) : seq[i] = c

\* code point order, lower case, upper case and casedness of each character
CharSet == Range(Ascii)
OrdTable == [c \in CharSet |-> IndexOf(Ascii, c)]
LowerTable ==
    [c \in CharSet |-> IF c \in Range(UpperCase) THEN LowerCase[IndexOf(UpperCase, c)] ELSE c]
UpperTable ==
    [c \in CharSet |-> IF c \in Range(LowerCase) THEN UpperCase[IndexOf(LowerCase, c)] ELSE c]
CasedSet == Range(UpperCase) \cup Range(LowerCase)

Ord(c) == OrdTable[c]
lower_char(c) == LowerTable[c]
upper_char(c) == UpperTable[c]
is_cased(c) == c \in CasedSet

\* str.lower()
lower(s) == [i \in 1..Len(s) |-> lower_char(s[i])]

\* str.title(): a cased character is upper-cased after an uncased one (or
\* at the start) and lower-cased after a cased one
title_case(s) ==
    [i \in 1..Len(s) |->
        IF i = 1 \/ ~is_cased(s[i-1]) THEN upper_char(s[i]) ELSE lower_char(s[i])]

RECURSIVE lstrip(_, _)
lstrip(s, cs) == IF s # <<>> /\ Head(s) \in cs THEN lstrip(Tail(s), cs) ELSE s

RECURSIVE rstrip(_, _)
rstrip(s, cs) ==
    IF s # <<>> /\ s[Len(s)] \in cs THEN rstrip(SubSeq(s, 1, Len(s) - 1), cs) ELSE s

\* str.strip(chars); strip() with no argument strips whitespace
strip_chars(s, cs) == rstrip(lstrip(s, cs), cs)
strip(s) == strip_chars(s, Whitespace)

\* sub in s, for strings
contains(sub, s) ==
    \E i \in 1..(Len(s) - Len(sub) + 1) : SubSeq(s, i, i + Len(sub) - 1) = sub

\* str.replace(old, new) for a non-empty old: left to right, not overlapping
RECURSIVE replace(_, _, _)
replace(s, old, new) ==
    IF Len(s) < Len(old) THEN s
    ELSE IF SubSeq(s, 1, Len(old)) = old
         THEN new \o replace(SubSeq(s, Len(old) + 1, Len(s)), old, new)
         ELSE <<Head(s)>> \o replace(Tail(s), old, new)

\* str.split() with no argument: the maximal runs of non-whitespace
RECURSIVE split_from(_, _)
split_from(s, w) ==
    LET flush == IF w = <<>> THEN <<>> ELSE <<w>>
    IN  IF s = <<>> THEN flush
        ELSE IF Head(s) \in Whitespace THEN flush \o split_from(Tail(s), <<>>)
             ELSE split_from(Tail(s), Append(w, Head(s)))
split(s) == split_from(s, <<>>)

\* s[0:n]
first_n(s, n) == SubSeq(s, 1, IF Len(s) < n THEN Len(s) ELSE n)

\* a < b for str: code-point order, a proper prefix first
RECURSIVE str_less(_, _)
str_less(a, b) ==
    IF b = <<>> THEN FALSE
    ELSE IF a = <<>> THEN TRUE
    ELSE IF Head(a) = Head(b) THEN str_less(Tail(a), Tail(b))
    ELSE Ord(Head(a)) < Ord(Head(b))

\* sorted(s) / list.sort(): stable and ascending; less[i, j] says that
\* s[i] < s[j] in the order the call sorts by
SortAsc(s, less) ==
    LET pos(i) == 1 + Cardinality({j \in 1..Len(s) :
                        less[j, i] \/ (~less[i, j] /\ j < i)})
    IN  [p \in 1..Len(s) |-> s[CHOOSE i \in 1..Len(s) : pos(i) = p]]

\* list.sort(reverse=True): descending, equal elements keep their order
SortDesc(s, less) ==
    LET pos(i) == 1 + Cardinality({j \in 1..Len(s) :
                        less[i, j] \/ (~less[j, i] /\ j < i)})
    IN  [p \in 1..Len(s) |-> s[CHOOSE i \in 1..Len(s) : pos(i) = p]]

(***************************************************************************)
(* Topic Namer.                                                            *)
(***************************************************************************)
invalid_chars == <<"<", ">", ":", "\"", "/", "\\", "|", "?", "*">>

RECURSIVE remove_each(_, _)
remove_each(s, chars) ==
    IF chars = <<>> THEN s
    ELSE remove_each(replace(s, <<Head(chars)>>, <<>>), Tail(chars))

RECURSIVE collapse_underscores(_)
collapse_underscores(s) ==
    IF contains(<<"_", "_">>, s)
    THEN collapse_underscores(replace(s, <<"_", "_">>, <<"_">>))
    ELSE s

\* the mutant: an invalid character is replaced by "_" instead of removed
sanitize_filename_replacing(filename) ==
    LET sanitized == replace(lower(filename), <<" ">>, <<"_">>)
        underscored == [i \in 1..Len(sanitized) |->
                           IF sanitized[i] \in Range(invalid_chars) THEN "_" ELSE sanitized[i]]
    IN  strip_chars(collapse_underscores(underscored), {"_"})

sanitize_filename(filename) ==
    LET sanitized == replace(lower(filename), <<" ">>, <<"_">>)
    IN  strip_chars(collapse_underscores(remove_each(sanitized, invalid_chars)), {"_"})

(***************************************************************************)
(* Results of calls.                                                       *)
(***************************************************************************)
Ok(v) == [exc |-> "", value |-> v]
\* a raised exception; default is what the caller would hold had it not raised
Raise(e, default) == [exc |-> e, value |-> default]

(***************************************************************************)
(* Dates.  A date is <<year, month, day>>; a datetime adds the hour.       *)
(***************************************************************************)
DigitTable == [c \in Range(Digits) |-> IndexOf(Digits, c) - 1]
digit_value(c) == DigitTable[c]

\* the decimal digits of n, zero-padded to width w
RECURSIVE zero_pad(_, _)
zero_pad(n, w) == IF w = 0 THEN <<>> ELSE Append(zero_pad(n \div 10, w - 1), Digits[(n % 10) + 1])

RECURSIVE parse_int(_)
parse_int(s) == IF s = <<>> THEN 0 ELSE 10 * parse_int(SubSeq(s, 1, Len(s) - 1)) + digit_value(s[Len(s)])

\* date.isoformat(): YYYY-MM-DD
date_isoformat(d) == zero_pad(d[1], 4) \o <<"-">> \o zero_pad(d[2], 2) \o <<"-">> \o zero_pad(d[3], 2)

\* datetime.fromisoformat(s).date()
fromisoformat_date(s) == <<parse_int(SubSeq(s, 1, 4)), parse_int(SubSeq(s, 6, 7)), parse_int(SubSeq(s, 9, 10))>>

\* datetime.date()
datetime_date(dt) == SubSeq(dt, 1, 3)

\* d1 < d2 for dates
date_less(d1, d2) ==
    \/ d1[1] < d2[1]
    \/ d1[1] = d2[1] /\ d1[2] < d2[2]
    \/ d1[1] = d2[1] /\ d1[2] = d2[2] /\ d1[3] < d2[3]

\* datetime.now().isoformat() at clock tick t
now_isoformat(t) == <<"T">> \o zero_pad(t, 2)

(***************************************************************************)
(* PaperInfo and its dictionary form (models.py).                          *)
(***************************************************************************)
PaperFields == {"paper_id", "title", "authors", "summary", "pdf_url",
                "published", "category", "updated", "doi"}
RequiredFields == {"paper_id", "title", "summary", "pdf_url", "published"}

\* PaperInfo(**kw): the validators strip paper_id, title and summary and
\* reject the ones that are empty after stripping; a required field that is
\* missing is rejected too
PaperInfo(kw) ==
    IF ~(RequiredFields \subseteq DOMAIN kw) THEN Raise("ValidationError", kw)
    ELSE IF strip(kw.paper_id) = <<>> \/ strip(kw.title) = <<>> \/ strip(kw.summary) = <<>>
         THEN Raise("ValidationError", kw)
    ELSE Ok([paper_id  |-> strip(kw.paper_id),
             title     |-> strip(kw.title),
             authors   |-> IF "authors" \in DOMAIN kw THEN kw.authors ELSE <<>>,
             summary   |-> strip(kw.summary),
             pdf_url   |-> kw.pdf_url,
             published |-> kw.published,
             category  |-> IF "category" \in DOMAIN kw THEN kw.category ELSE None,
             updated   |-> IF "updated" \in DOMAIN kw THEN kw.updated ELSE None,
             doi       |-> IF "doi" \in DOMAIN kw THEN kw.doi ELSE None])

\* PaperInfo.to_dict(): dates become ISO strings, authors become bare names
to_dict(self) ==
    [paper_id  |-> self.paper_id,
     title     |-> self.title,
     authors   |-> [i \in 1..Len(self.authors) |-> self.authors[i].name],
     summary   |-> self.summary,
     pdf_url   |-> self.pdf_url,
     published |-> date_isoformat(self.published),
     category  |-> self.category,
     updated   |-> IF self.updated # None THEN Some(date_isoformat(self.updated[1])) ELSE None,
     doi       |-> self.doi]

\* PaperInfo.from_dict(data), data a dictionary read from a collection file:
\* data['authors'][0] raises IndexError on an empty author list
from_dict(data) ==
    IF "authors" \in DOMAIN data /\ data.authors = <<>> THEN Raise("IndexError", data)
    ELSE
    LET with_authors(d) ==
            IF "authors" \in DOMAIN d
            THEN [d EXCEPT !.authors = [i \in 1..Len(d.authors) |-> [name |-> d.authors[i]]]]
            ELSE d
        with_published(d) ==
            IF "published" \in DOMAIN d
            THEN [d EXCEPT !.published = fromisoformat_date(d.published)]
            ELSE d
        with_updated(d) ==
            IF "updated" \in DOMAIN d /\ d.updated # None
            THEN [d EXCEPT !.updated = Some(fromisoformat_date(d.updated[1]))]
            ELSE d
    IN  PaperInfo(with_updated(with_published(with_authors(data))))

(***************************************************************************)
(* PaperDatabase (models.py).  papers is a dict: a sequence of entries     *)
(* [k, v] in insertion order with distinct keys.  A collection file is     *)
(* [kind, entries]: kind says what open() and json.load() make of it.      *)
(***************************************************************************)
EmptyDict == [k \in {} |-> None]
EmptyDb == [papers |-> <<>>, metadata |-> EmptyDict]

Keys(d) == {d[i].k : i \in 1..Len(d)}
dict_get(d, key) ==
    IF key \in Keys(d) THEN Some(d[CHOOSE i \in 1..Len(d) : d[i].k = key].v) ELSE None
\* d[key] = value: an existing key keeps its place
dict_set(d, key, value) ==
    IF key \in Keys(d)
    THEN [i \in 1..Len(d) |-> IF d[i].k = key THEN [k |-> key, v |-> value] ELSE d[i]]
    ELSE Append(d, [k |-> key, v |-> value])

has_paper(db, paper_id) == paper_id \in Keys(db.papers)
get_paper(db, paper_id) == dict_get(db.papers, paper_id)
add_paper(db, paper) == [db EXCEPT !.papers = dict_set(db.papers, paper.paper_id, paper)]

\* PaperDatabase.to_json_dict(): the papers only; metadata is not written
to_json_dict(db) == [i \in 1..Len(db.papers) |-> [k |-> db.papers[i].k, v |-> to_dict(db.papers[i].v)]]

\* PaperDatabase.from_json_dict(data): the first record that cannot be built
\* raises for the whole collection
RECURSIVE from_json_entries(_, _)
from_json_entries(entries, papers) ==
    IF entries = <<>> THEN Ok([papers |-> papers, metadata |-> EmptyDict])
    ELSE LET built(r) ==
                 IF r.exc # "" THEN Raise(r.exc, EmptyDb)
                 ELSE from_json_entries(Tail(entries), dict_set(papers, Head(entries).k, r.value))
         IN  built(from_dict(Head(entries).v))
from_json_dict(entries) == from_json_entries(entries, <<>>)

MissingFile == [kind |-> "missing", entries |-> <<>>]
ObjectFile(entries) == [kind |-> "object", entries |-> entries]

\* PaperDatabase.load_from_file(): FileNotFoundError and JSONDecodeError give
\* the empty database, anything else propagates
load_from_file(file) ==
    CASE file.kind = "missing"    -> Ok(EmptyDb)
      [] file.kind = "garbage"    -> Ok(EmptyDb)
      [] file.kind = "unreadable" -> Raise("PermissionError", EmptyDb)
      [] file.kind = "array"      -> Raise("AttributeError", EmptyDb)
      [] file.kind = "object"     -> from_json_dict(file.entries)

(***************************************************************************)
(* FileHandler (utils/file_handler.py).                                    *)
(***************************************************************************)
get_topic_directory(topic) ==
    IF sanitize_filename(topic) = <<".">> THEN <<>> ELSE sanitize_filename(topic)
get_papers_info_file(topic) ==
    LET at(d) == IF d \in DOMAIN files THEN files[d] ELSE MissingFile
    IN  at(get_topic_directory(topic))

\* the mutant: the except clause is missing
load_papers_database_uncaught(topic) == load_from_file(get_papers_info_file(topic))

load_papers_database(topic) ==
    LET caught(r) == IF r.exc = "" THEN r ELSE Ok(EmptyDb)
    IN  caught(load_from_file(get_papers_info_file(topic)))

\* the children of papers_dir that are directories
\* the names under which get_topic_directory gives no subdirectory of
\* papers_dir: papers_dir / "" is papers_dir itself and papers_dir / ".." is
\* the directory above it; iterdir() yields neither
NotBeneath == {<<>>, <<".", ".">>}
topic_dirs == {d \in dirs : d \notin NotBeneath}
has_collection(d) == d \in DOMAIN files /\ files[d].kind # "missing"

\* papers_dir.iterdir(): what it raises when papers_dir cannot be listed
iterdir_exc == IF fault = "no_list" THEN "PermissionError" ELSE ""

\* list_all_topics() when iterdir() does not raise
list_all_topics ==
    LET names == {d \in topic_dirs : has_collection(d)}
        anyOrder(labels) == CHOOSE s \in [1..Cardinality(labels) -> labels] : Range(s) = labels
        sorted(s) == SortAsc(s, [i \in 1..Len(s), j \in 1..Len(s) |-> str_less(s[i], s[j])])
    IN  sorted(anyOrder({title_case(replace(d, <<"_">>, <<" ">>)) : d \in names}))

\* The conditions of the file system: none; papers_dir is read-only, so no
\* new directory can be made in it; the volume is full, so a file can be
\* opened but the write to it does not complete; papers_dir cannot be listed.
Faults == {"none", "no_mkdir", "no_write", "no_list"}

\* what open(file_path, 'w') leaves before anything is written: an empty
\* file, which json.load rejects
TruncatedFile == [kind |-> "garbage", entries |-> <<>>]

\* create_topic_directory(topic): mkdir(parents=True, exist_ok=True)
create_topic_directory(topic) ==
    LET made(d) ==
            IF fault = "no_mkdir" /\ d \notin dirs
            THEN Raise("PermissionError", dirs)
            ELSE Ok(dirs \cup {d})
    IN  made(get_topic_directory(topic))

\* database.metadata.update({...}) of save_papers_database
with_metadata(topic, database) ==
    [database EXCEPT !.metadata =
        [last_updated |-> now_isoformat(clock),
         topic        |-> topic,
         paper_count  |-> Len(database.papers)]]

\* PaperDatabase.save_to_file(): open(file_path, 'w') empties the file, then
\* json.dump writes the papers; a write that cannot complete raises and
\* leaves the emptied file
save_to_file(db, d) ==
    IF fault = "no_write"
    THEN Raise("OSError", [files EXCEPT ![d] = TruncatedFile])
    ELSE Ok([files EXCEPT ![d] = ObjectFile(to_json_dict(db))])

\* the mutant: the except clause swallows the failure and the path is returned
save_papers_database_swallowing(topic, database) ==
    LET written(d, db, mk, wr) ==
            Ok([dirs     |-> mk.value,
                files    |-> wr.value,
                database |-> db,
                path     |-> <<d, "papers_info.json">>])
        saving(d, db) == written(d, db, create_topic_directory(topic), save_to_file(db, d))
    IN  saving(get_topic_directory(topic), with_metadata(topic, database))

\* save_papers_database(topic, database): the directory is made, the metadata
\* is set on the in-memory database, the papers are written over the file.
\* The value is the store after the save and the database as the caller
\* holds it; whatever is raised is raised again to the caller.
save_papers_database(topic, database) ==
    LET written(d, db, mk, wr) ==
            IF mk.exc # ""
            THEN Raise(mk.exc, [dirs |-> dirs, files |-> files, database |-> database,
                                path |-> <<d, "papers_info.json">>])
            ELSE [exc   |-> wr.exc,
                  value |-> [dirs     |-> mk.value,
                             files    |-> wr.value,
                             database |-> db,
                             path     |-> <<d, "papers_info.json">>]]
        saving(d, db) == written(d, db, create_topic_directory(topic), save_to_file(db, d))
    IN  saving(get_topic_directory(topic), with_metadata(topic, database))

\* the mutant: a collection that cannot be read ends the scan
RECURSIVE find_paper_across_topics_aborting(_, _)
find_paper_across_topics_aborting(paper_id, order) ==
    IF order = <<>> THEN None
    ELSE LET topic_dir == Head(order)
             scan(r) ==
                 IF r.exc # "" THEN None
                 ELSE IF get_paper(r.value, paper_id) # None
                      THEN get_paper(r.value, paper_id)
                      ELSE find_paper_across_topics_aborting(paper_id, Tail(order))
         IN  IF ~has_collection(topic_dir)
             THEN find_paper_across_topics_aborting(paper_id, Tail(order))
             ELSE scan(load_from_file(files[topic_dir]))

\* find_paper_across_topics(paper_id); order is the order in which iterdir()
\* yields the topic directories, which the file system chooses.  A papers_dir
\* that does not exist gives None, as one with no directory in it does.
RECURSIVE find_paper_across_topics(_, _)
find_paper_across_topics(paper_id, order) ==
    IF order = <<>> THEN None
    ELSE LET topic_dir == Head(order)
             scan(r, rest) ==
                 IF r.exc # "" THEN rest
                 ELSE IF get_paper(r.value, paper_id) # None
                      THEN get_paper(r.value, paper_id)
                      ELSE rest
         IN  IF ~has_collection(topic_dir)
             THEN find_paper_across_topics(paper_id, Tail(order))
             ELSE scan(load_from_file(files[topic_dir]),
                       find_paper_across_topics(paper_id, Tail(order)))

\* max / min of the publication dates of a non-empty dict of papers
latest_published(papers) ==
    CHOOSE d \in {papers[i].v.published : i \in 1..Len(papers)} :
        \A i \in 1..Len(papers) : ~date_less(d, papers[i].v.published)
oldest_published(papers) ==
    CHOOSE d \in {papers[i].v.published : i \in 1..Len(papers)} :
        \A i \in 1..Len(papers) : ~date_less(papers[i].v.published, d)

StrUnknown == <<"U","n","k","n","o","w","n">>

topic_stats_of(topic, database) ==
    [topic        |-> topic,
     paper_count  |-> Len(database.papers),
     latest_paper |-> date_isoformat(latest_published(database.papers)),
     oldest_paper |-> date_isoformat(oldest_published(database.papers)),
     last_updated |-> IF "last_updated" \in DOMAIN database.metadata
                      THEN database.metadata.last_updated ELSE StrUnknown]

\* the mutant: no early return for an empty database, so max() of an empty
\* list raises ValueError
get_topic_stats_unguarded(topic) ==
    LET stats(ld) ==
            IF ld.exc # "" THEN Raise(ld.exc, [paper_count |-> 0, topic |-> topic])
            ELSE IF ld.value.papers = <<>>
                 THEN Raise("ValueError", [paper_count |-> 0, topic |-> topic])
                 ELSE Ok(topic_stats_of(topic, ld.value))
    IN  stats(load_papers_database(topic))

get_topic_stats(topic) ==
    LET stats(ld) ==
            IF ld.exc # "" THEN Raise(ld.exc, [paper_count |-> 0, topic |-> topic])
            ELSE IF ld.value.papers = <<>>
                 THEN Ok([paper_count |-> 0, topic |-> topic])
                 ELSE Ok(topic_stats_of(topic, ld.value))
    IN  stats(load_papers_database(topic))

(***************************************************************************)
(* ArxivSearchTool (tools/arxiv_search.py).  A candidate is an arxiv.Result *)
(* as the adapter returns it.                                              *)
(***************************************************************************)
\* _convert_arxiv_paper(paper)
convert_arxiv_paper(paper) ==
    PaperInfo([paper_id  |-> paper.short_id,
               title     |-> strip(paper.title),
               authors   |-> [i \in 1..Len(paper.authors) |-> [name |-> paper.authors[i].name]],
               summary   |-> strip(paper.summary),
               pdf_url   |-> paper.pdf_url,
               published |-> datetime_date(paper.published),
               category  |-> IF paper.categories # <<>> THEN Some(paper.categories[1]) ELSE None,
               updated   |-> IF paper.updated # None THEN Some(datetime_date(paper.updated[1])) ELSE None,
               doi       |-> paper.doi])

\* the mutant: a collection file that cannot be loaded counts as empty
cleanup_empty_directories_unloadable ==
    LET removable(d) ==
            \/ ~has_collection(d)
            \/ load_from_file(files[d]).exc # ""
            \/ load_from_file(files[d]).value.papers = <<>>
        cleaned(removed) ==
            [exc   |-> "",
             value |-> Cardinality(removed),
             dirs  |-> dirs \ removed,
             files |-> [d \in DOMAIN files |-> IF d \in removed THEN MissingFile ELSE files[d]]]
    IN  IF iterdir_exc # ""
        THEN [exc |-> iterdir_exc, value |-> 0, dirs |-> dirs, files |-> files]
        ELSE cleaned({d \in topic_dirs : fault # "no_mkdir" /\ removable(d)})

\* FileHandler.cleanup_empty_directories(): a topic directory is removed
\* when it has no entry, or when its only entry is a collection file that
\* loads and holds no paper; a load that raises leaves the directory, and
\* so does a removal that papers_dir, being read-only, does not allow
cleanup_empty_directories ==
    LET removable(d) ==
            \/ ~has_collection(d)
            \/ /\ load_from_file(files[d]).exc = ""
               /\ load_from_file(files[d]).value.papers = <<>>
        cleaned(removed) ==
            [exc   |-> "",
             value |-> Cardinality(removed),
             dirs  |-> dirs \ removed,
             files |-> [d \in DOMAIN files |-> IF d \in removed THEN MissingFile ELSE files[d]]]
    IN  IF iterdir_exc # ""
        THEN [exc |-> iterdir_exc, value |-> 0, dirs |-> dirs, files |-> files]
        ELSE cleaned({d \in topic_dirs : fault # "no_mkdir" /\ removable(d)})

\* ServerConfig as os.getenv gives it when no variable is set
EnvConfig ==
    [arxiv_max_results_default |-> 5, arxiv_max_results_limit |-> 50,
     log_level |-> "INFO", transport |-> "stdio"]

\* ServerConfig.validate(): the exception it raises, "" when it returns
validate(c) ==
    IF c.arxiv_max_results_default > c.arxiv_max_results_limit THEN "ValueError"
    ELSE IF c.log_level \notin {"DEBUG", "INFO", "WARNING", "ERROR", "CRITICAL"} THEN "ValueError"
    ELSE IF c.transport \notin {"stdio", "http", "sse"} THEN "ValueError"
    ELSE ""

\* get_config() with the environment giving env: the instance is assigned
\* to _config before it is validated
get_config(env) ==
    IF config = None
    THEN [exc |-> validate(env), value |-> env, config |-> Some(env)]
    ELSE [exc |-> "", value |-> config[1], config |-> config]

\* reload_config(): _config = None, then get_config()
reload_config(env) == [exc |-> validate(env), value |-> env, config |-> Some(env)]

\* the mutant: the instance is installed before it is validated
set_config_unvalidated(custom) ==
    [exc |-> validate(custom), value |-> custom, config |-> Some(custom)]

\* set_config(config)
set_config(custom) ==
    IF validate(custom) # ""
    THEN [exc |-> validate(custom), value |-> custom, config |-> config]
    ELSE [exc |-> "", value |-> custom, config |-> Some(custom)]

\* the head of search_papers: the default, SearchRequest(topic, max_results)
\* with its Field constraints and its validator, then the limit
search_request(topic, max_results, tool_config) ==
    LET limited(mr) ==
            IF Len(topic) < 1 \/ mr < 1 \/ mr > 50
            THEN Raise("ValidationError", [topic |-> topic, max_results |-> mr])
            ELSE Ok([topic |-> strip(topic),
                     max_results |-> IF mr > tool_config.arxiv_max_results_limit
                                     THEN tool_config.arxiv_max_results_limit
                                     ELSE mr])
    IN  limited(IF max_results = None THEN tool_config.arxiv_max_results_default
                ELSE max_results[1])

\* the mutant: only the identifier of a new record is appended to paper_ids
RECURSIVE process_results_new_only(_, _)
process_results_new_only(papers, st) ==
    IF papers = <<>> THEN Ok(st)
    ELSE LET paper == Head(papers)
             paper_id == paper.short_id
             ids == Append(st.paper_ids, paper_id)
             added(c) ==
                 IF c.exc # "" THEN Raise(c.exc, st)
                 ELSE process_results_new_only(Tail(papers),
                         [database         |-> add_paper(st.database, c.value),
                          paper_ids        |-> ids,
                          new_papers_count |-> st.new_papers_count + 1])
         IN  IF ~has_paper(st.database, paper_id)
             THEN added(convert_arxiv_paper(paper))
             ELSE process_results_new_only(Tail(papers), st)

\* the loop over the adapter's results: st is [database, paper_ids, new_papers_count]
RECURSIVE process_results(_, _)
process_results(papers, st) ==
    IF papers = <<>> THEN Ok(st)
    ELSE LET paper == Head(papers)
             paper_id == paper.short_id
             ids == Append(st.paper_ids, paper_id)
             added(c) ==
                 IF c.exc # "" THEN Raise(c.exc, st)
                 ELSE process_results(Tail(papers),
                         [database         |-> add_paper(st.database, c.value),
                          paper_ids        |-> ids,
                          new_papers_count |-> st.new_papers_count + 1])
         IN  IF ~has_paper(st.database, paper_id)
             THEN added(convert_arxiv_paper(paper))
             ELSE process_results(Tail(papers), [st EXCEPT !.paper_ids = ids])

\* search_papers(topic, max_results) with the adapter returning papers: the
\* value is the SearchResult, the count the log reports and the save's outcome
search_papers(topic, papers) ==
    LET failed_after(e, request_topic, store) ==
            Raise("ArxivSearchError",
                  [cause |-> e, topic |-> request_topic, paper_ids |-> <<>>,
                   total_found |-> 0, new_papers_count |-> 0, saved |-> store])
        failed(e, request_topic) == failed_after(e, request_topic, None)
        saved(request_topic, done, sv) ==
            IF sv.exc # "" THEN failed_after(sv.exc, request_topic, Some(sv.value))
            ELSE Ok([cause            |-> "",
                     topic            |-> request_topic,
                     paper_ids        |-> done.value.paper_ids,
                     total_found      |-> Len(done.value.paper_ids),
                     new_papers_count |-> done.value.new_papers_count,
                     saved            |-> Some(sv.value)])
        processed(request_topic, done) ==
            IF done.exc # "" THEN failed(done.exc, request_topic)
            ELSE saved(request_topic, done,
                       save_papers_database(request_topic, done.value.database))
        loaded(request_topic, ld) ==
            IF ld.exc # "" THEN failed(ld.exc, request_topic)
            ELSE processed(request_topic,
                           process_results(papers, [database |-> ld.value, paper_ids |-> <<>>,
                                                    new_papers_count |-> 0]))
        requested(request_topic) == loaded(request_topic, load_papers_database(request_topic))
    IN  requested(strip(topic))

(***************************************************************************)
(* PaperInfoTool (tools/paper_info.py).                                    *)
(***************************************************************************)
\* A Python dict handed to json.dumps: vals are the values and types names
\* the Python type of each.  json.dumps raises TypeError on a type it has
\* no encoding for, such as datetime.
JsonTypes == {"str", "int", "float", "bool", "NoneType", "list", "dict"}
json_dumps(d) ==
    IF \E k \in DOMAIN d.types : d.types[k] \notin JsonTypes
    THEN Raise("TypeError", d.vals)
    ELSE Ok(d.vals)

\* paper_info.to_dict() as json.dumps sees it
to_dict_typed(self) ==
    LET typed(vals) ==
            [vals  |-> vals,
             types |-> [f \in PaperFields |->
                          IF f = "authors" THEN "list"
                          ELSE IF vals[f] = None THEN "NoneType" ELSE "str"]]
    IN  typed(to_dict(self))

\* ErrorResponse(error=..., error_type=..., context=...).dict(): timestamp is
\* the datetime that default_factory=datetime.now gave
ErrorResponse_dict(error, error_type, context) ==
    [vals  |-> [error      |-> error,
                error_type |-> error_type,
                timestamp  |-> clock,
                context    |-> context],
     types |-> [error      |-> "str",
                error_type |-> "str",
                timestamp  |-> "datetime",
                context    |-> IF context = None THEN "NoneType" ELSE "dict"]]

\* PaperInfoTool.extract_info(paper_id): the try body, then the except clause,
\* whose own json.dumps is outside any try
extract_info(paper_id, order) ==
    LET found(id, paper_info) ==
            IF paper_info # None
            THEN json_dumps(to_dict_typed(paper_info[1]))
            ELSE json_dumps(ErrorResponse_dict(
                     "No saved information found for paper", "NotFoundError",
                     Some([paper_id |-> id, searched_topics |-> list_all_topics])))
        body(id) ==
            IF id = <<>>
            THEN json_dumps(ErrorResponse_dict("Paper ID cannot be empty", "ValidationError", None))
            ELSE IF iterdir_exc # "" THEN Raise(iterdir_exc, None)
            ELSE found(id, find_paper_across_topics(id, order))
        except(id, r) ==
            IF r.exc = "" THEN r
            ELSE json_dumps(ErrorResponse_dict(
                     "Failed to extract paper information", "InternalError",
                     Some([paper_id |-> IF id = <<>> THEN paper_id ELSE id])))
        stripped(id) == except(id, body(id))
    IN  stripped(strip(paper_id))

\* the extract_info tool of the server (server.py): ValueError for an empty
\* id, RuntimeError for whatever else the tool raises
server_extract_info(paper_id, order) ==
    IF strip(paper_id) = <<>> THEN Raise("ValueError", None)
    ELSE LET wrapped(r) == IF r.exc # "" THEN Raise("RuntimeError", r.value) ELSE r
         IN  wrapped(extract_info(strip(paper_id), order))

\* the sort key of search_papers_by_title and the order of two keys
title_sort_key(x, query_lower) ==
    LET key(title_lower, words) ==
            [not_in_first3 |-> ~(\E w \in Range(first_n(split(title_lower), 3)) : w = query_lower),
             neg_words     |-> 0 - Cardinality({i \in 1..Len(words) :
                                                  contains(words[i], title_lower)}),
             published     |-> x.published]
    IN  key(lower(x.title), split(query_lower))
key_less(a, b) ==
    \/ ~a.not_in_first3 /\ b.not_in_first3
    \/ a.not_in_first3 = b.not_in_first3 /\ a.neg_words < b.neg_words
    \/ a.not_in_first3 = b.not_in_first3 /\ a.neg_words = b.neg_words
         /\ str_less(a.published, b.published)

\* the records of one topic whose title contains the query
RECURSIVE matching_in(_, _, _)
matching_in(papers, topic, query_lower) ==
    IF papers = <<>> THEN <<>>
    ELSE LET paper_info == Head(papers).v
             hit == IF contains(query_lower, lower(paper_info.title))
                    THEN <<[id        |-> Head(papers).k,
                            title     |-> paper_info.title,
                            authors   |-> [i \in 1..Len(paper_info.authors) |-> paper_info.authors[i].name],
                            published |-> date_isoformat(paper_info.published),
                            topic     |-> topic,
                            category  |-> paper_info.category]>>
                    ELSE <<>>
         IN  hit \o matching_in(Tail(papers), topic, query_lower)

RECURSIVE matching_papers(_, _)
matching_papers(topics, query_lower) ==
    IF topics = <<>> THEN Ok(<<>>)
    ELSE LET joined(ld, rest) ==
                 IF ld.exc # "" THEN Raise(ld.exc, <<>>)
                 ELSE IF rest.exc # "" THEN rest
                 ELSE Ok(matching_in(ld.value.papers, Head(topics), query_lower) \o rest.value)
         IN  joined(load_papers_database(Head(topics)),
                    matching_papers(Tail(topics), query_lower))

\* the mutant: the list is sorted without reverse=True
search_papers_by_title_ascending(title_query) ==
    LET sort_key(m, query_lower) == [i \in 1..Len(m) |-> title_sort_key(m[i], query_lower)]
        sorted(m, keys) == SortAsc(m, [i \in 1..Len(m), j \in 1..Len(m) |->
                                         key_less(keys[i], keys[j])])
        ranked(query_lower, found) ==
            IF found.exc # "" THEN <<>>
            ELSE sorted(found.value, sort_key(found.value, query_lower))
        query(query_lower) == ranked(query_lower, matching_papers(list_all_topics, query_lower))
    IN  IF iterdir_exc # "" THEN <<>> ELSE query(strip(lower(title_query)))

search_papers_by_title(title_query) ==
    LET sort_key(m, query_lower) == [i \in 1..Len(m) |-> title_sort_key(m[i], query_lower)]
        sorted(m, keys) == SortDesc(m, [i \in 1..Len(m), j \in 1..Len(m) |->
                                          key_less(keys[i], keys[j])])
        ranked(query_lower, found) ==
            IF found.exc # "" THEN <<>>
            ELSE sorted(found.value, sort_key(found.value, query_lower))
        query(query_lower) == ranked(query_lower, matching_papers(list_all_topics, query_lower))
    IN  IF iterdir_exc # "" THEN <<>> ELSE query(strip(lower(title_query)))

RECURSIVE all_topic_stats(_)
all_topic_stats(topics) ==
    IF topics = <<>> THEN Ok(<<>>)
    ELSE LET joined(st, rest) ==
                 IF st.exc # "" THEN Raise(st.exc, <<>>)
                 ELSE IF rest.exc # "" THEN rest
                 ELSE Ok(<<st.value>> \o rest.value)
         IN  joined(get_topic_stats(Head(topics)), all_topic_stats(Tail(topics)))

RECURSIVE sum_paper_count(_)
sum_paper_count(stats) ==
    IF stats = <<>> THEN 0 ELSE Head(stats).paper_count + sum_paper_count(Tail(stats))

\* the mutant: no except clause, what the listing raises leaves the function
get_database_stats_uncaught ==
    LET sorted(t) == SortDesc(t, [i \in 1..Len(t), j \in 1..Len(t) |->
                                    t[i].paper_count < t[j].paper_count])
        report(topics, topic_stats) ==
            [total_topics |-> Len(topics),
             total_papers |-> sum_paper_count(topic_stats.value),
             topics |-> sorted(topic_stats.value),
             generated_at |-> now_isoformat(clock)]
        listed(topics) == report(topics, all_topic_stats(topics))
    IN  IF iterdir_exc # "" THEN [raised |-> iterdir_exc] ELSE listed(list_all_topics)

get_database_stats ==
    LET sorted(t) == SortDesc(t, [i \in 1..Len(t), j \in 1..Len(t) |->
                                    t[i].paper_count < t[j].paper_count])
        report(topics, topic_stats) ==
            IF topic_stats.exc # ""
            THEN [error |-> topic_stats.exc, total_topics |-> 0, total_papers |-> 0,
                  topics |-> <<>>]
            ELSE [total_topics |-> Len(topics),
                  total_papers |-> sum_paper_count(topic_stats.value),
                  topics |-> sorted(topic_stats.value),
                  generated_at |-> now_isoformat(clock)]
        listed(topics) == report(topics, all_topic_stats(topics))
    IN  IF iterdir_exc # ""
        THEN [error |-> iterdir_exc, total_topics |-> 0, total_papers |-> 0, topics |-> <<>>]
        ELSE listed(list_all_topics)

list_papers_by_topic(topic) ==
    LET papers_list(papers) ==
            [i \in 1..Len(papers) |->
               [id        |-> papers[i].k,
                title     |-> papers[i].v.title,
                authors   |-> [j \in 1..Len(papers[i].v.authors) |-> papers[i].v.authors[j].name],
                published |-> date_isoformat(papers[i].v.published),
                category  |-> papers[i].v.category]]
        sorted(l) == SortDesc(l, [i \in 1..Len(l), j \in 1..Len(l) |->
                                    str_less(l[i].published, l[j].published)])
        listing(ld) ==
            IF ld.exc # ""
            THEN [topic |-> topic, error |-> ld.exc, paper_count |-> 0, papers |-> <<>>]
            ELSE [topic |-> topic, paper_count |-> Len(ld.value.papers),
                  papers |-> sorted(papers_list(ld.value.papers)),
                  metadata |-> ld.value.metadata]
    IN  listing(load_papers_database(topic))

(***************************************************************************)
(* export_paper_data (tools/paper_info.py): the JSON, BibTeX and plain     *)
(* text forms of a stored record.                                          *)
(***************************************************************************)
\* get_paper_info(paper_id): whatever the lookup raises becomes None
get_paper_info(paper_id, order) ==
    IF iterdir_exc # "" THEN None ELSE find_paper_across_topics(strip(paper_id), order)

\* sep.join(parts)
RECURSIVE join(_, _)
join(sep, parts) ==
    IF parts = <<>> THEN <<>>
    ELSE IF Len(parts) = 1 THEN parts[1]
    ELSE parts[1] \o sep \o join(sep, Tail(parts))

\* str(n) for an int n >= 0
RECURSIVE int_str(_)
int_str(n) == IF n < 10 THEN <<Digits[n + 1]>> ELSE Append(int_str(n \div 10), Digits[(n % 10) + 1])

author_names(paper_info) == [i \in 1..Len(paper_info.authors) |-> paper_info.authors[i].name]

\* the pieces of the f-string of the BibTeX form
Bib ==
    [key       |-> <<"@","a","r","t","i","c","l","e","{">>,
     title     |-> <<",","\n"," "," ","t","i","t","l","e","=","{">>,
     author    |-> <<"}",",","\n"," "," ","a","u","t","h","o","r","=","{">>,
     year      |-> <<"}",",","\n"," "," ","y","e","a","r","=","{">>,
     journal   |-> <<"}",",","\n"," "," ","j","o","u","r","n","a","l","=","{","a","r","X","i","v"," ","p","r","e","p","r","i","n","t"," ","a","r","X","i","v",":">>,
     url       |-> <<"}",",","\n"," "," ","u","r","l","=","{">>,
     close     |-> <<"}","\n","}">>,
     and       |-> <<" ","a","n","d"," ">>]

\* the mutant: the authors are joined with ", " as in the plain form
format_bibtex_comma(paper_info) ==
    Bib.key \o paper_info.paper_id
      \o Bib.title \o paper_info.title
      \o Bib.author \o join(<<",", " ">>, author_names(paper_info))
      \o Bib.year \o int_str(paper_info.published[1])
      \o Bib.journal \o paper_info.paper_id
      \o Bib.url \o paper_info.pdf_url
      \o Bib.close

format_bibtex(paper_info) ==
    Bib.key \o paper_info.paper_id
      \o Bib.title \o paper_info.title
      \o Bib.author \o join(Bib.and, author_names(paper_info))
      \o Bib.year \o int_str(paper_info.published[1])
      \o Bib.journal \o paper_info.paper_id
      \o Bib.url \o paper_info.pdf_url
      \o Bib.close

\* the pieces of the f-string of the plain form
Plain ==
    [title     |-> <<"T","i","t","l","e",":"," ">>,
     authors   |-> <<"\n","A","u","t","h","o","r","s",":"," ">>,
     published |-> <<"\n","P","u","b","l","i","s","h","e","d",":"," ">>,
     id        |-> <<"\n","A","r","X","i","v"," ","I","D",":"," ">>,
     category  |-> <<"\n","C","a","t","e","g","o","r","y",":"," ">>,
     url       |-> <<"\n","P","D","F"," ","U","R","L",":"," ">>,
     abstract  |-> <<"\n","\n","A","b","s","t","r","a","c","t",":","\n">>,
     na        |-> <<"N","/","A">>]

format_plain(paper_info) ==
    Plain.title \o paper_info.title
      \o Plain.authors \o join(<<",", " ">>, author_names(paper_info))
      \o Plain.published \o date_isoformat(paper_info.published)
      \o Plain.id \o paper_info.paper_id
      \o Plain.category \o (IF paper_info.category = None \/ paper_info.category = Some(<<>>)
                            THEN Plain.na ELSE paper_info.category[1])
      \o Plain.url \o paper_info.pdf_url
      \o Plain.abstract \o paper_info.summary

FormatJson == <<"j","s","o","n">>
FormatBibtex == <<"b","i","b","t","e","x">>
FormatPlain == <<"p","l","a","i","n">>

\* export_paper_data(paper_id, format): nothing in it is inside a try, so
\* what json.dumps raises is raised to the caller
export_paper_data(paper_id, format, order) ==
    LET exported(paper_info, fmt) ==
            IF paper_info = None THEN Ok(None)
            ELSE IF fmt = FormatJson
                 THEN LET dumped(r) == IF r.exc # "" THEN Raise(r.exc, None)
                                       ELSE Ok(Some([json |-> r.value]))
                      IN  dumped(json_dumps(to_dict_typed(paper_info[1])))
            ELSE IF fmt = FormatBibtex THEN Ok(Some(format_bibtex(paper_info[1])))
            ELSE IF fmt = FormatPlain THEN Ok(Some(format_plain(paper_info[1])))
            ELSE Ok(None)
    IN  exported(get_paper_info(paper_id, order), lower(format))

(***************************************************************************)
(* The inputs of the model: topics, the adapter's results, identifiers and *)
(* title queries.                                                          *)
(***************************************************************************)
TopicStr ==
    [ai       |-> <<"a","i">>,
     ab       |-> <<"A"," ","B">>,
     slash    |-> <<"A","/","B">>,
     mlai     |-> <<"M","a","c","h","i","n","e"," ","L","e","a","r","n","i","n","g"," ","&"," ","A","I">>,
     spaced   |-> <<" "," ","a"," "," "," ","b"," "," ">>,
     a_b      |-> <<"a","_","b">>,
     marks    |-> <<"?","?","?">>,
     dots     |-> <<".",".">>,
     dot      |-> <<".">>]
Topics == {TopicStr.ai, TopicStr.ab, TopicStr.a_b}
NamerInputs == Topics \cup {TopicStr.slash, TopicStr.mlai, TopicStr.spaced}

IdStr ==
    [q1       |-> <<"Q","1">>,
     q2       |-> <<"Q","2">>,
     q3       |-> <<"Q","3">>,
     q9       |-> <<"Q","9">>]
LookupIds == {IdStr.q1, IdStr.q3, IdStr.q9, <<>>}
ExportIds == {IdStr.q1, IdStr.q2, IdStr.q3, IdStr.q9}

TitleStr ==
    [networks |-> <<"N","e","u","r","a","l"," ","N","e","t","w","o","r","k","s"," ","f","o","r"," ","X">>,
     study    |-> <<"A"," ","S","t","u","d","y"," ","I","n","v","o","l","v","i","n","g"," ","N","e","u","r","a","l"," ","M","e","t","h","o","d","s">>,
     nets     |-> <<"N","e","u","r","a","l"," ","N","e","t","s">>,
     deep     |-> <<"D","e","e","p"," ","X">>,
     neural   |-> <<"n","e","u","r","a","l">>]
TitleQueries == {TitleStr.neural}

\* the formats asked of export_paper_data: one in mixed case, one unsupported
FormatMixed == <<"B","i","b","T","e","X">>
FormatXml == <<"x","m","l">>
Formats == {FormatJson, FormatMixed, FormatPlain, FormatXml}

Ann == [name |-> <<"A","n","n">>]
Bob == [name |-> <<"B","o","b">>]

\* Q1 as first fetched
Result1a ==
    [short_id |-> IdStr.q1, title |-> TitleStr.networks, authors |-> <<Ann, Bob>>,
     summary |-> <<"s","1">>, pdf_url |-> <<"u","1">>, published |-> <<2021, 3, 4, 12>>,
     updated |-> None, categories |-> <<<<"c","s",".","A","I">>>>, doi |-> None]
\* Q1 as fetched again after a revision
Result1b ==
    [short_id |-> IdStr.q1, title |-> TitleStr.nets, authors |-> <<Bob, Ann>>,
     summary |-> <<"s","1">>, pdf_url |-> <<"u","1">>, published |-> <<2021, 3, 4, 12>>,
     updated |-> Some(<<2022, 1, 2, 3>>), categories |-> <<<<"c","s",".","A","I">>>>, doi |-> None]
\* as with arXiv, the URL of the PDF ends in the identifier
Result2 ==
    [short_id |-> IdStr.q2, title |-> TitleStr.study, authors |-> <<Bob>>,
     summary |-> <<"s","2">>, pdf_url |-> <<"u","/","Q","2">>, published |-> <<2020, 11, 30, 9>>,
     updated |-> None, categories |-> <<>>, doi |-> None]
\* a result with no author
Result3 ==
    [short_id |-> IdStr.q3, title |-> TitleStr.deep, authors |-> <<>>,
     summary |-> <<"s","3">>, pdf_url |-> <<"u","3">>, published |-> <<2022, 6, 7, 8>>,
     updated |-> None, categories |-> <<>>, doi |-> None]
\* a later paper whose title starts as that of Q1
Result4 ==
    [short_id |-> <<"Q","4">>, title |-> <<"N","e","u","r","a","l"," ","Y">>, authors |-> <<Ann>>,
     summary |-> <<"s","4">>, pdf_url |-> <<"u","4">>, published |-> <<2023, 5, 6, 7>>,
     updated |-> None, categories |-> <<>>, doi |-> None]
Results == {Result1a, Result1b, Result2, Result3, Result4}

\* what the adapter returns for one search: nothing, one result, two results,
\* the same result twice
ResultLists ==
    {<<>>, <<Result1a>>, <<Result1b>>, <<Result2>>, <<Result3>>, <<Result4>>,
     <<Result1a, Result2>>, <<Result3, Result3>>}

AllDirs == {get_topic_directory(strip(t)) : t \in Topics} \cup NotBeneath

\* the orders in which iterdir() can yield the topic directories
DirOrders ==
    {o \in [1..Cardinality(topic_dirs) -> topic_dirs] : Range(o) = topic_dirs}

(***************************************************************************)
(* The state machine.                                                      *)
(***************************************************************************)
\* the processes that can search at the same time, none of them searching
Procs == {1, 2}
Idle == [p \in Procs |-> [pc |-> "idle"]]

Init ==
    /\ fault = "none"
    /\ dirs = {}
    /\ files = [d \in AllDirs |-> MissingFile]
    /\ clock = 0
    /\ res = [op |-> "init"]
    /\ inflight = Idle
    /\ config = Some(EnvConfig)
    /\ stored = {}
    /\ lastSaved = {}
    /\ lastMeta = [d \in AllDirs |-> None]

ReadOnly == UNCHANGED <<dirs, files, clock, fault, inflight, stored, lastSaved, lastMeta, config>>

\* The calls are synchronous and come one at a time.  The result of a read
\* is handed to the caller (Deliver) before the next call is made; the result
\* of a search stays in res until the next call.
ReadOps == {"sanitize_filename", "load_papers_database", "find_paper_across_topics",
            "list_all_topics", "get_topic_stats", "extract_info",
            "search_papers_by_title", "get_database_stats", "list_papers_by_topic",
            "export_paper_data"}
Ready == res.op \notin ReadOps

Deliver ==
    /\ ~Ready
    /\ res' = [op |-> "idle"]
    /\ ReadOnly

\* ArxivSearchTool.search_papers(topic) with the adapter returning papers
SearchPapers(topic, max_results, papers) ==
    /\ Ready
    /\ clock < MaxSaves
    /\ config # None
    /\ UNCHANGED <<fault, inflight, config>>
    /\ LET written(sv, saved, d) ==
               /\ dirs' = sv.dirs
               /\ files' = sv.files
               /\ clock' = clock + 1
               /\ stored' = stored \cup
                    {[dir |-> d, id |-> saved[i].k, rec |-> saved[i].v] :
                       i \in {j \in 1..Len(saved) :
                                ~\E e \in stored : e.dir = d /\ e.id = saved[j].k}}
               /\ lastSaved' = {e \in lastSaved : e.id \notin Keys(saved)} \cup
                    {[id |-> saved[i].k, rec |-> saved[i].v] : i \in 1..Len(saved)}
               /\ lastMeta' = [lastMeta EXCEPT ![d] = Some(sv.database.metadata)]
           rejected(rq) ==
               /\ papers = <<>>
               /\ res' = [op |-> "search_papers", topic |-> topic, papers |-> papers,
                          max_results |-> max_results, request |-> None,
                          exc |-> rq.exc,
                          out |-> [cause |-> rq.exc, topic |-> topic, paper_ids |-> <<>>,
                                   total_found |-> 0, new_papers_count |-> 0, saved |-> None],
                          saved_papers |-> <<>>]
               /\ UNCHANGED <<dirs, files, clock, stored, lastSaved, lastMeta>>
           returned(rq, r) ==
               /\ Len(papers) <= rq.value.max_results
               /\ res' = [op |-> "search_papers", topic |-> topic, papers |-> papers,
                          max_results |-> max_results, request |-> Some(rq.value),
                          exc |-> r.exc, out |-> [r.value EXCEPT !.saved = None],
                          saved_papers |-> IF r.exc = ""
                                           THEN r.value.saved[1].database.papers
                                           ELSE <<>>]
               /\ IF r.exc = ""
                  THEN written(r.value.saved[1], r.value.saved[1].database.papers,
                               r.value.saved[1].path[1])
                  ELSE IF r.value.saved # None
                  THEN /\ dirs' = r.value.saved[1].dirs
                       /\ files' = r.value.saved[1].files
                       /\ UNCHANGED <<clock, stored, lastSaved, lastMeta>>
                  ELSE UNCHANGED <<dirs, files, clock, stored, lastSaved, lastMeta>>
           requested(rq) ==
               IF rq.exc # "" THEN rejected(rq)
               ELSE returned(rq, search_papers(topic, papers))
       IN  requested(search_request(topic, max_results, config[1]))

\* FileHandler._sanitize_filename(filename)
SanitizeFilename(filename) ==
    /\ Ready
    /\ res' = [op |-> "sanitize_filename", filename |-> filename,
               out |-> sanitize_filename(filename)]
    /\ ReadOnly

\* FileHandler.load_papers_database(topic)
LoadPapersDatabase(topic) ==
    /\ Ready
    /\ LET returned(r) ==
               res' = [op |-> "load_papers_database", topic |-> topic,
                       file |-> get_papers_info_file(topic),
                       exc |-> r.exc, out |-> r.value]
       IN  returned(load_papers_database(topic))
    /\ ReadOnly

\* FileHandler.find_paper_across_topics(paper_id)
FindPaperAcrossTopics(paper_id, order) ==
    /\ Ready
    /\ res' = [op |-> "find_paper_across_topics", paper_id |-> paper_id,
               order |-> order,
               exc |-> iterdir_exc,
               out |-> IF iterdir_exc # "" THEN None
                       ELSE find_paper_across_topics(paper_id, order)]
    /\ ReadOnly

\* FileHandler.list_all_topics()
ListAllTopics ==
    /\ Ready
    /\ res' = [op |-> "list_all_topics", exc |-> iterdir_exc,
               out |-> IF iterdir_exc # "" THEN <<>> ELSE list_all_topics]
    /\ ReadOnly

\* the mutant: the topic's directory is made before the statistics are read
GetTopicStats_creating(topic) ==
    /\ Ready
    /\ LET returned(r) ==
               res' = [op |-> "get_topic_stats", topic |-> topic,
                       file |-> get_papers_info_file(topic),
                       exc |-> r.exc, out |-> r.value]
       IN  returned(get_topic_stats(topic))
    /\ dirs' = dirs \cup {get_topic_directory(topic)}
    /\ UNCHANGED <<files, clock, fault, inflight, stored, lastSaved, lastMeta, config>>

\* FileHandler.get_topic_stats(topic)
GetTopicStats(topic) ==
    /\ Ready
    /\ LET returned(r) ==
               res' = [op |-> "get_topic_stats", topic |-> topic,
                       file |-> get_papers_info_file(topic),
                       exc |-> r.exc, out |-> r.value]
       IN  returned(get_topic_stats(topic))
    /\ ReadOnly

\* PaperInfoTool.extract_info(paper_id), called directly and through the server
ExtractInfo(paper_id, order) ==
    /\ Ready
    /\ LET returned(r) ==
               res' = [op |-> "extract_info", paper_id |-> paper_id,
                       exc |-> r.exc, out |-> r.value,
                       server_exc |-> server_extract_info(paper_id, order).exc,
                       topics |-> list_all_topics]
       IN  returned(extract_info(paper_id, order))
    /\ ReadOnly

\* PaperInfoTool.search_papers_by_title(title_query)
SearchPapersByTitle(title_query) ==
    /\ Ready
    /\ res' = [op |-> "search_papers_by_title", title_query |-> title_query,
               out |-> search_papers_by_title(title_query)]
    /\ ReadOnly

\* PaperInfoTool.get_database_stats()
GetDatabaseStats ==
    /\ Ready
    /\ res' = [op |-> "get_database_stats", out |-> get_database_stats]
    /\ ReadOnly

\* PaperInfoTool.list_papers_by_topic(topic)
ListPapersByTopic(topic) ==
    /\ Ready
    /\ res' = [op |-> "list_papers_by_topic", topic |-> topic,
               out |-> list_papers_by_topic(topic)]
    /\ ReadOnly

\* FileHandler.cleanup_empty_directories()
CleanupEmptyDirectories ==
    /\ Ready
    /\ LET returned(r) ==
               /\ res' = [op |-> "cleanup_empty_directories", exc |-> r.exc, out |-> r.value]
               /\ dirs' = r.dirs
               /\ files' = r.files
       IN  returned(cleanup_empty_directories)
    /\ UNCHANGED <<clock, fault, inflight, stored, lastSaved, lastMeta, config>>

\* PaperInfoTool.export_paper_data(paper_id, format)
ExportPaperData(paper_id, format, order) ==
    /\ Ready
    /\ LET returned(r) ==
               res' = [op |-> "export_paper_data", paper_id |-> paper_id,
                       format |-> format,
                       record |-> get_paper_info(paper_id, order),
                       exc |-> r.exc, out |-> r.value]
       IN  returned(export_paper_data(paper_id, format, order))
    /\ ReadOnly

Next ==
    \/ \E topic \in Topics, papers \in ResultLists : SearchPapers(topic, None, papers)
    \/ \E filename \in NamerInputs : SanitizeFilename(filename)
    \/ \E topic \in Topics : LoadPapersDatabase(topic)
    \/ \E paper_id \in LookupIds, order \in DirOrders : FindPaperAcrossTopics(paper_id, order)
    \/ ListAllTopics
    \/ \E topic \in Topics : GetTopicStats(topic)
    \/ \E paper_id \in LookupIds, order \in DirOrders : ExtractInfo(paper_id, order)
    \/ \E title_query \in TitleQueries : SearchPapersByTitle(title_query)
    \/ GetDatabaseStats
    \/ \E topic \in Topics : ListPapersByTopic(topic)
    \/ \E paper_id \in ExportIds, format \in Formats, order \in DirOrders :
          ExportPaperData(paper_id, format, order)
    \/ Deliver

Spec == Init /\ [][Next]_vars

(***************************************************************************)
(* The store as a process finds it when collection files are already on    *)
(* disk that the code did not write: not JSON at all, a JSON array, or an  *)
(* object whose record lacks the required fields.                          *)
(***************************************************************************)
GarbageFile == [kind |-> "garbage", entries |-> <<>>]
ArrayFile == [kind |-> "array", entries |-> <<>>]
MalformedFile == ObjectFile(<<[k |-> IdStr.q9, v |-> [title |-> TitleStr.deep]]>>)
\* a file the process may write but not read
UnreadableFile == [kind |-> "unreadable", entries |-> <<>>]
\* a collection that an earlier run of the code saved
SavedFile ==
    ObjectFile(to_json_dict(add_paper(EmptyDb, convert_arxiv_paper(Result1a).value)))
FoundFiles == {MissingFile, GarbageFile, ArrayFile, MalformedFile, UnreadableFile, SavedFile}

\* what the adapter returns in the searches of this specification
EnvLists == {<<>>, <<Result1a>>, <<Result3>>, <<Result1a, Result2>>}

\* a directory may be there without a collection file in it
InitEnv ==
    /\ fault \in Faults
    /\ files \in {f \in [AllDirs -> FoundFiles] : \A d \in NotBeneath : f[d] = MissingFile}
    /\ dirs \in {ds \in SUBSET (AllDirs \ NotBeneath) :
                    \A d \in AllDirs : files[d].kind # "missing" => d \in ds}
    /\ clock = 0
    /\ res = [op |-> "init"]
    /\ inflight = Idle
    /\ config = Some(EnvConfig)
    /\ stored = {}
    /\ lastSaved = {}
    /\ lastMeta = [d \in AllDirs |-> None]

NextEnv ==
    \/ \E topic \in Topics, papers \in EnvLists : SearchPapers(topic, None, papers)
    \/ \E topic \in Topics : LoadPapersDatabase(topic)
    \/ \E topic \in Topics : GetTopicStats(topic)
    \/ \E paper_id \in LookupIds, order \in DirOrders : FindPaperAcrossTopics(paper_id, order)
    \/ ListAllTopics
    \/ \E paper_id \in LookupIds, order \in DirOrders : ExtractInfo(paper_id, order)
    \/ \E title_query \in TitleQueries : SearchPapersByTitle(title_query)
    \/ GetDatabaseStats
    \/ \E topic \in Topics : ListPapersByTopic(topic)
    \/ \E paper_id \in {IdStr.q1}, format \in {FormatJson}, order \in DirOrders :
          ExportPaperData(paper_id, format, order)
    \/ CleanupEmptyDirectories
    \/ Deliver

SpecEnv == InitEnv /\ [][NextEnv]_vars

\* ---------------------------------------------------------------------
\* Two processes on one store.  Nothing locks the collection file, so the
\* steps of a search in one process (load and merge; open(file, 'w'); the
\* write of json.dump and the close) interleave with the steps of the other
\* process and with the loads of a reader.  Each process makes one search.

\* what the adapter returns in the searches of this specification
RaceLists == {<<Result1a>>, <<Result2>>, <<Result1a, Result2>>}
RaceFaults == {"none", "no_write"}

Other(p) == CHOOSE q \in Procs : q # p

InitRace ==
    /\ fault \in RaceFaults
    /\ dirs = {}
    /\ files = [d \in AllDirs |-> MissingFile]
    /\ clock = 0
    /\ res = [op |-> "init"]
    /\ inflight = Idle
    /\ config = Some(EnvConfig)
    /\ stored = {}
    /\ lastSaved = {}
    /\ lastMeta = [d \in AllDirs |-> None]

\* search_papers up to the call of save_papers_database: the collection is
\* loaded and the results are merged into it
RaceLoad(p, topic, papers) ==
    /\ inflight[p].pc = "idle"
    /\ LET merged(request_topic, done) ==
               inflight' = [inflight EXCEPT ![p] =
                   IF done.exc # ""
                   THEN [pc |-> "done", topic |-> request_topic, exc |-> done.exc,
                         database |-> EmptyDb, racing |-> FALSE, last |-> FALSE]
                   ELSE [pc |-> "loaded", topic |-> request_topic, exc |-> "",
                         database |-> done.value.database,
                         racing |-> FALSE, last |-> FALSE]]
           loaded(request_topic, ld) ==
               merged(request_topic,
                      process_results(papers, [database |-> ld.value, paper_ids |-> <<>>,
                                               new_papers_count |-> 0]))
           requested(request_topic) == loaded(request_topic, load_papers_database(request_topic))
       IN  requested(strip(topic))
    /\ UNCHANGED <<dirs, files, clock, res, fault, stored, lastSaved, lastMeta, config>>

\* save_papers_database up to open(file_path, 'w'): the directory is made,
\* the metadata is set and the file is opened, which empties it
RaceOpen(p) ==
    /\ inflight[p].pc = "loaded"
    /\ clock < MaxSaves
    /\ LET q == Other(p)
           both == IF inflight[q].pc = "loaded" THEN TRUE
                   ELSE IF inflight[q].pc \in {"opened", "done"} THEN inflight[q].racing
                   ELSE FALSE
           opened(d, db, mk) ==
               IF mk.exc # ""
               THEN /\ inflight' = [inflight EXCEPT ![p].pc = "done", ![p].exc = mk.exc]
                    /\ UNCHANGED <<dirs, files, clock>>
               ELSE /\ dirs' = mk.value
                    /\ files' = [files EXCEPT ![d] = TruncatedFile]
                    /\ clock' = clock + 1
                    /\ inflight' = [inflight EXCEPT ![p].pc = "opened",
                                                    ![p].database = db,
                                                    ![p].racing = both]
       IN  opened(get_topic_directory(inflight[p].topic),
                  with_metadata(inflight[p].topic, inflight[p].database),
                  create_topic_directory(inflight[p].topic))
    /\ UNCHANGED <<res, fault, stored, lastSaved, lastMeta, config>>

\* json.dump and the close of the file.  The handle writes from offset 0 and
\* does not cut the file: when the other handle has written another text
\* since this one emptied the file, the file ends as this text or, this
\* text being the shorter, as this text followed by the rest of the text
\* that was there, which is no JSON.  A text with more records is the longer.
RaceWrite(p) ==
    /\ inflight[p].pc = "opened"
    /\ LET q == Other(p)
           d == get_topic_directory(inflight[p].topic)
           text == ObjectFile(to_json_dict(inflight[p].database))
       IN  IF fault = "no_write"
           THEN /\ inflight' = [inflight EXCEPT ![p].pc = "done", ![p].exc = "OSError"]
                /\ UNCHANGED files
           ELSE /\ inflight' = [inflight EXCEPT ![p].pc = "done", ![p].last = TRUE,
                                                ![q].last = FALSE]
                /\ \E after \in IF \/ files[d] \in {TruncatedFile, text}
                                   \/ Len(text.entries) > Len(files[d].entries)
                                THEN {text}
                                ELSE {text, GarbageFile} :
                      files' = [files EXCEPT ![d] = after]
    /\ UNCHANGED <<dirs, clock, res, fault, stored, lastSaved, lastMeta, config>>

NextRace ==
    \/ \E p \in Procs, topic \in Topics, papers \in RaceLists : RaceLoad(p, topic, papers)
    \/ \E p \in Procs : RaceOpen(p)
    \/ \E p \in Procs : RaceWrite(p)
    \/ \E topic \in Topics : LoadPapersDatabase(topic)
    \/ Deliver

SpecRace == InitRace /\ [][NextRace]_vars

\* ---------------------------------------------------------------------
\* The configuration module and the searches of a tool built on the
\* installed configuration, with max_results given by the caller.

\* the configurations handed to set_config or given by the environment: the
\* one of the tests, the defaults, one with its limit above 50, and one for
\* each way of being invalid
Configs ==
    {[EnvConfig EXCEPT !.arxiv_max_results_default = 3, !.arxiv_max_results_limit = 10,
                       !.log_level = "DEBUG"],
     EnvConfig,
     [EnvConfig EXCEPT !.arxiv_max_results_limit = 100, !.transport = "http"],
     [EnvConfig EXCEPT !.arxiv_max_results_default = 60],
     [EnvConfig EXCEPT !.log_level = "TRACE"],
     [EnvConfig EXCEPT !.transport = "tcp"]}

\* the max_results of the calls
MaxResultsGiven == {None, Some(0), Some(2), Some(20), Some(60), Some(120)}

InitConfig ==
    /\ fault = "none"
    /\ dirs = {}
    /\ files = [d \in AllDirs |-> MissingFile]
    /\ clock = 0
    /\ res = [op |-> "init"]
    /\ inflight = Idle
    /\ stored = {}
    /\ lastSaved = {}
    /\ lastMeta = [d \in AllDirs |-> None]
    /\ config = None

\* what a call of the configuration module leaves
ConfigCall(op, arg, r) ==
    /\ res' = [op |-> op, arg |-> arg, exc |-> r.exc, out |-> r.value]
    /\ config' = r.config
    /\ UNCHANGED <<dirs, files, clock, fault, inflight, stored, lastSaved, lastMeta>>

SetConfig(custom) == Ready /\ ConfigCall("set_config", custom, set_config(custom))
GetConfig(env) == Ready /\ ConfigCall("get_config", env, get_config(env))
ReloadConfig(env) == Ready /\ ConfigCall("reload_config", env, reload_config(env))

NextConfig ==
    \/ \E custom \in Configs : SetConfig(custom)
    \/ \E env \in Configs : GetConfig(env)
    \/ \E env \in Configs : ReloadConfig(env)
    \/ \E topic \in {TopicStr.ai}, max_results \in MaxResultsGiven,
          papers \in {<<>>, <<Result1a>>, <<Result1a, Result2>>} :
          SearchPapers(topic, max_results, papers)
    \/ \E topic \in {TopicStr.ai} : LoadPapersDatabase(topic)
    \/ Deliver

SpecConfig == InitConfig /\ [][NextConfig]_vars

\* ---------------------------------------------------------------------
\* Searches under topics that the Topic Namer maps to no name, or to a name
\* that is no subdirectory, next to an ordinary topic.
NextNames ==
    \/ \E topic \in {TopicStr.marks, TopicStr.dots, TopicStr.dot, TopicStr.ab},
          papers \in {<<Result1a>>, <<Result2>>, <<Result1a, Result2>>} :
          SearchPapers(topic, None, papers)
    \/ ListAllTopics
    \/ \E paper_id \in ExportIds, order \in DirOrders : FindPaperAcrossTopics(paper_id, order)
    \/ \E topic \in {TopicStr.marks, TopicStr.dots, TopicStr.dot, TopicStr.ab} :
          LoadPapersDatabase(topic)
    \/ Deliver

SpecNames == Init /\ [][NextNames]_vars

(***************************************************************************)
(* The claims.                                                             *)
(***************************************************************************)
\* the records a collection file holds, whether or not they can be loaded
persisted_ids(d) == IF files[d].kind = "object" THEN Keys(files[d].entries) ELSE {}

\* C1: once a record is stored under an identifier in a topic, load of that
\* topic maps the identifier to exactly that record, whatever searches follow.
C1_StoredRecordKept ==
    \A e \in stored : \A t \in Topics :
        get_topic_directory(strip(t)) = e.dir
            => get_paper(load_papers_database(t).value, e.id) = Some(e.rec)

\* C2: a search run twice in a row with the same topic and the same results
\* adds no record the second time and leaves the collection file as it was.
C2_SecondRunAddsNothing ==
    [][(/\ res.op = "search_papers" /\ res.exc = ""
        /\ res'.op = "search_papers"
        /\ res'.topic = res.topic /\ res'.papers = res.papers)
          => (res'.exc = "" /\ res'.out.new_papers_count = 0 /\ files' = files)]_vars

\* C3: find_paper_across_topics returns the record the most recent save wrote
\* for the identifier, and None only for an identifier no collection holds.
C3_FindReturnsLastSaved ==
    res.op = "find_paper_across_topics" =>
        /\ \A e \in lastSaved : e.id = res.paper_id => res.out = Some(e.rec)
        /\ res.out = None => \A d \in AllDirs : res.paper_id \notin persisted_ids(d)

\* a file that is there, is JSON and has the shape of a collection
ExpectedShape(file) ==
    /\ file.kind = "object"
    /\ \A i \in 1..Len(file.entries) : RequiredFields \subseteq DOMAIN file.entries[i].v

\* C4: load_papers_database never raises, and gives the empty database for a
\* file that is missing, is not JSON or has not the shape of a collection.
C4_LoadNeverRaises ==
    res.op = "load_papers_database" =>
        /\ res.exc = ""
        /\ ~ExpectedShape(res.file) => res.out = EmptyDb

C4_Witness ==
    /\ res.op = "load_papers_database"
    /\ res.file = ArrayFile
    /\ res.out = EmptyDb

\* C5: the Topic Namer maps "Machine Learning & AI" to "machine_learning_ai"
\* and "  a   b  " to "a_b".
C5_NamerExamples ==
    res.op = "sanitize_filename" =>
        /\ res.filename = TopicStr.mlai =>
             res.out = <<"m","a","c","h","i","n","e","_","l","e","a","r","n","i","n","g","_","a","i">>
        /\ res.filename = TopicStr.spaced => res.out = <<"a","_","b">>

\* the query is one of the first three words of the title
InFirstThreeWords(query_lower, title) ==
    query_lower \in Range(first_n(split(lower(title)), 3))

\* C6: in the result of search_papers_by_title, every record with the query
\* among the first three words of its title comes before every record
\* without.
C6_FirstThreeWordsFirst ==
    res.op = "search_papers_by_title" =>
        \A i, j \in 1..Len(res.out) :
            (/\ InFirstThreeWords(strip(lower(res.title_query)), res.out[i].title)
             /\ ~InFirstThreeWords(strip(lower(res.title_query)), res.out[j].title))
                => i < j

\* C7: for an identifier stored in no topic, extract_info returns a
\* NotFoundError payload whose context holds the identifier and the topics
\* searched, and nothing is raised to the caller.
C7_NotFoundIsStructured ==
    (/\ res.op = "extract_info"
     /\ strip(res.paper_id) # <<>>
     /\ \A d \in AllDirs : strip(res.paper_id) \notin persisted_ids(d)) =>
        /\ res.exc = ""
        /\ res.server_exc = ""
        /\ res.out.error_type = "NotFoundError"
        /\ res.out.context = Some([paper_id |-> strip(res.paper_id),
                                   searched_topics |-> res.topics])

RECURSIVE persisted_total(_)
persisted_total(ds) ==
    IF ds = {} THEN 0
    ELSE LET d == CHOOSE x \in ds : TRUE
         IN  Cardinality(persisted_ids(d)) + persisted_total(ds \ {d})

\* C8: get_database_stats reports the number of topic directories that hold
\* a collection file and the sum of the records persisted in them.
C8_StatsCountPersisted ==
    res.op = "get_database_stats" =>
        /\ res.out.total_topics = Cardinality({d \in topic_dirs : has_collection(d)})
        /\ res.out.total_papers = persisted_total({d \in topic_dirs : has_collection(d)})

\* the metadata the latest save set for the topic; the save was of a
\* non-empty collection in which every record has an author
SavedMeta(topic) == lastMeta[get_topic_directory(strip(topic))]
SavedNonEmpty(topic) ==
    LET file == files[get_topic_directory(strip(topic))]
    IN  /\ SavedMeta(topic) # None
        /\ SavedMeta(topic)[1].paper_count > 0
        /\ \A i \in 1..Len(file.entries) : file.entries[i].v.authors # <<>>

\* C9: after a save of a non-empty collection, get_topic_stats reports the
\* save's timestamp as last_updated and list_papers_by_topic returns the
\* metadata the save set.
C9_MetadataSurvivesSave ==
    /\ (res.op = "get_topic_stats" /\ SavedNonEmpty(res.topic)) =>
          /\ res.exc = ""
          /\ "last_updated" \in DOMAIN res.out
          /\ res.out.last_updated = SavedMeta(res.topic)[1].last_updated
    /\ (res.op = "list_papers_by_topic" /\ SavedNonEmpty(res.topic)) =>
          /\ "metadata" \in DOMAIN res.out
          /\ res.out.metadata = SavedMeta(res.topic)[1]

\* never saved, not readable as a collection, or saved with no record
EmptyCollection(file) == ~ExpectedShape(file) \/ file.entries = <<>>

\* C10: get_topic_stats on a topic whose collection is empty returns
\* paper_count 0 and no latest_paper, oldest_paper or last_updated, and does
\* not raise.
C10_EmptyTopicStats ==
    (res.op = "get_topic_stats" /\ EmptyCollection(res.file)) =>
        /\ res.exc = ""
        /\ res.out.paper_count = 0
        /\ DOMAIN res.out \cap {"latest_paper", "oldest_paper", "last_updated"} = {}

C10_Witness ==
    /\ res.op = "get_topic_stats"
    /\ res.file = ObjectFile(<<>>)
    /\ res.out.paper_count = 0

\* C11: two topic strings with the same Topic Namer output share one
\* collection: the records a search under the first saved are returned by
\* load of the second, and a search under the second that finds one of them
\* again counts it as already present.
C11_SameNameSameCollection ==
    (res.op = "search_papers" /\ res.exc = "") =>
        \A t2 \in Topics \ {res.topic} :
            sanitize_filename(t2) = sanitize_filename(res.topic) =>
                \A i \in 1..Len(res.saved_papers) :
                    /\ get_paper(load_papers_database(t2).value, res.saved_papers[i].k)
                          = Some(res.saved_papers[i].v)
                    /\ \A r \in Results :
                          r.short_id = res.saved_papers[i].k =>
                              search_papers(t2, <<r>>).value.new_papers_count = 0

\* the number of places of text at which sub begins
occurrences(sub, text) ==
    Cardinality({i \in 1..(Len(text) - Len(sub) + 1) : SubSeq(text, i, i + Len(sub) - 1) = sub})

\* a BibTeX export of a record that was found
BibtexExported ==
    /\ res.op = "export_paper_data"
    /\ lower(res.format) = FormatBibtex
    /\ res.exc = ""
    /\ res.out # None

\* the entry opens with the citation key, holds the journal field and joins
\* two or more authors with " and "
BibtexShape ==
    /\ SubSeq(res.out[1], 1, Len(Bib.key) + Len(res.record[1].paper_id) + 1)
          = Bib.key \o res.record[1].paper_id \o <<",">>
    /\ contains(Bib.journal \o res.record[1].paper_id \o <<"}">>, res.out[1])
    /\ Len(res.record[1].authors) >= 2 =>
          contains(Bib.author \o res.record[1].authors[1].name \o Bib.and
                     \o res.record[1].authors[2].name, res.out[1])

\* C12 as stated: the BibTeX export holds the identifier in exactly two
\* places, the citation key and the journal field, and nowhere else, and
\* joins two or more authors with " and ".
C12_IdExactlyTwice ==
    BibtexExported =>
        /\ BibtexShape
        /\ occurrences(res.record[1].paper_id, res.out[1]) = 2

\* C12 amended: the BibTeX export writes the identifier as the citation key
\* and in the journal field; the entry holds it at those two places and
\* wherever the record's own title, author names or URL hold it; two or
\* more authors are joined with " and ".
C12_IdTwiceBesidesFields ==
    BibtexExported =>
        /\ BibtexShape
        /\ occurrences(res.record[1].paper_id, res.out[1])
              = 2 + occurrences(res.record[1].paper_id, res.record[1].title)
                  + occurrences(res.record[1].paper_id,
                                join(Bib.and, author_names(res.record[1])))
                  + occurrences(res.record[1].paper_id, res.record[1].pdf_url)

C12_Witness ==
    /\ BibtexExported
    /\ Len(res.record[1].authors) >= 2
    /\ occurrences(res.record[1].paper_id, res.out[1]) = 2

\* C13: export_paper_data returns a string exactly when the identifier is
\* stored in some topic and the format, whatever its case, is json, bibtex
\* or plain; otherwise it returns None; it never raises.
C13_ExportIffStoredAndSupported ==
    res.op = "export_paper_data" =>
        /\ res.exc = ""
        /\ res.out # None <=>
              (/\ \E d \in AllDirs : strip(res.paper_id) \in persisted_ids(d)
               /\ lower(res.format) \in {FormatJson, FormatBibtex, FormatPlain})

\* C14: get_database_stats always returns a payload with total_topics,
\* total_papers and topics, the topics in descending order of paper_count;
\* when an internal step fails (papers_dir cannot be listed) the payload has
\* zeros, an empty list and an error field.
C14_StatsNeverPropagate ==
    res.op = "get_database_stats" =>
        /\ {"total_topics", "total_papers", "topics"} \subseteq DOMAIN res.out
        /\ \A i, j \in 1..Len(res.out.topics) :
              i < j => res.out.topics[i].paper_count >= res.out.topics[j].paper_count
        /\ fault = "no_list" <=> "error" \in DOMAIN res.out
        /\ "error" \in DOMAIN res.out =>
              /\ res.out.total_topics = 0
              /\ res.out.total_papers = 0
              /\ res.out.topics = <<>>

C14_Witness ==
    /\ res.op = "get_database_stats"
    /\ "error" \in DOMAIN res.out
    /\ res.out.total_topics = 0
    /\ dirs # {}

\* the collection of the directory can be loaded and holds the identifier
HoldsLoadable(d, paper_id) ==
    /\ has_collection(d)
    /\ load_from_file(files[d]).exc = ""
    /\ has_paper(load_from_file(files[d]).value, paper_id)
\* the collection of the directory is there and cannot be loaded
Unloadable(d) == has_collection(d) /\ load_from_file(files[d]).exc # ""

\* C15: find_paper_across_topics goes on after a collection that cannot be
\* read or built and past directories without a collection file: an
\* identifier held by a well-formed collection is found, in the first such
\* collection of the scan.
C15_ScanContinues ==
    (res.op = "find_paper_across_topics" /\ res.exc = "") =>
        \A i \in 1..Len(res.order) :
            (/\ HoldsLoadable(res.order[i], res.paper_id)
             /\ \A j \in 1..(i - 1) : ~HoldsLoadable(res.order[j], res.paper_id))
                => res.out = get_paper(load_from_file(files[res.order[i]]).value, res.paper_id)

C15_Witness ==
    /\ res.op = "find_paper_across_topics"
    /\ res.out # None
    /\ Len(res.order) = 2
    /\ Unloadable(res.order[1])
    /\ HoldsLoadable(res.order[2], res.paper_id)

\* the operations of the read side
ReadSideOps == {"extract_info", "find_paper_across_topics", "get_database_stats",
                "get_topic_stats", "list_all_topics", "search_papers_by_title",
                "list_papers_by_topic", "export_paper_data"}

\* C16: no operation of the read side creates, changes or removes a
\* directory or a collection file.
C16_ReadsLeaveStore ==
    [][(res'.op \in ReadSideOps /\ res' # res) => (dirs' = dirs /\ files' = files)]_vars

C16_Witness ==
    /\ res.op = "get_topic_stats"
    /\ get_topic_directory(res.topic) \notin dirs
    /\ \E d \in dirs : files[d].kind = "object"

\* the save of a search under the topic cannot complete in this state
SaveWillFail(topic) ==
    \/ fault = "no_write"
    \/ fault = "no_mkdir" /\ get_topic_directory(strip(topic)) \notin dirs

\* C19: when the directory cannot be made or the write cannot complete,
\* save_papers_database raises, the search that called it raises and
\* reports no success, and the save is not tried again: no collection is
\* written.
C19_WriteFailurePropagates ==
    [][(res'.op = "search_papers" /\ res' # res /\ SaveWillFail(res'.topic)) =>
          /\ save_papers_database(strip(res'.topic), EmptyDb).exc \in {"OSError", "PermissionError"}
          /\ res'.exc = "ArxivSearchError"
          /\ res'.out.cause \in {"OSError", "PermissionError"}
          /\ res'.out.paper_ids = <<>> /\ res'.out.new_papers_count = 0
          /\ clock' = clock
          /\ files'[get_topic_directory(strip(res'.topic))].kind # "object"
                \/ files' = files]_vars

C19_Witness ==
    /\ res.op = "search_papers"
    /\ res.exc = "ArxivSearchError"
    /\ res.out.cause = "OSError"
    /\ fault = "no_write"

\* the searches of both processes have returned, they were made on the same
\* topic and both had loaded before either began to save
BothDoneRacing ==
    /\ \A p \in Procs : inflight[p].pc = "done" /\ inflight[p].racing
    /\ inflight[1].topic = inflight[2].topic

\* C17: when two searches on the same topic have both loaded before either
\* saves, neither reports an error and the collection file ends holding
\* exactly the collection of the one that wrote last.
C17_LastWriterWins ==
    (fault = "none" /\ BothDoneRacing) =>
        /\ \A p \in Procs : inflight[p].exc = ""
        /\ \E p \in Procs :
              /\ inflight[p].last
              /\ files[get_topic_directory(inflight[p].topic)]
                    = ObjectFile(to_json_dict(inflight[p].database))

\* the collections written by the saves of the directory that have returned
CompletedSaves(d) ==
    {inflight[p].database.papers :
        p \in {q \in Procs : /\ inflight[q].pc = "done"
                             /\ inflight[q].exc = ""
                             /\ get_topic_directory(inflight[q].topic) = d}}

\* C18: every load of a topic returns the whole collection written by a
\* save of the topic that has returned or, when no save of the topic has
\* returned, the empty collection.
C18_NoPartialWriteVisible ==
    [][(res'.op = "load_papers_database" /\ res' # res) =>
          IF CompletedSaves(get_topic_directory(res'.topic)) = {}
          THEN res'.out.papers = <<>>
          ELSE res'.out.papers \in CompletedSaves(get_topic_directory(res'.topic))]_vars

\* C20: load after save gives back the collection that was saved: the same
\* identifiers, each with a record equal to the one saved, whatever the
\* number of authors of the records.
C20_SaveLoadIdentity ==
    (res.op = "search_papers" /\ res.exc = "") =>
        /\ load_papers_database(strip(res.topic)).exc = ""
        /\ load_papers_database(strip(res.topic)).value.papers = res.saved_papers

\* C21 as stated: the Topic Namer maps "A/B" and "A B" to the same directory
\* name.
C21_SlashAndSpaceCollide ==
    (res.op = "sanitize_filename" /\ res.filename = TopicStr.slash) =>
        res.out = sanitize_filename(TopicStr.ab)

\* C21 amended: the Topic Namer maps "A B" and "a_b" to the same directory
\* name "a_b", and a search under either topic writes the collection file of
\* that directory; "A/B" is mapped to "ab", which is another directory.
C21_SpaceAndUnderscoreCollide ==
    /\ (res.op = "sanitize_filename" /\ res.filename = TopicStr.slash) =>
          res.out = <<"a","b">>
    /\ (res.op = "sanitize_filename" /\ res.filename \in {TopicStr.ab, TopicStr.a_b}) =>
          res.out = <<"a","_","b">>
    /\ (res.op = "search_papers" /\ res.exc = "" /\ res.topic \in {TopicStr.ab, TopicStr.a_b}) =>
          /\ files[<<"a","_","b">>].kind = "object"
          /\ Keys(files[<<"a","_","b">>].entries) = Keys(res.saved_papers)

C21_Witness ==
    /\ res.op = "sanitize_filename"
    /\ res.filename = TopicStr.slash
    /\ res.out = <<"a","b">>
    /\ files[<<"a","_","b">>].kind = "object"

\* the number of the query's words that the title contains
WordsInTitle(query_lower, title) ==
    Cardinality({i \in 1..Len(split(query_lower)) :
                    contains(split(query_lower)[i], lower(title))})

\* C22: among the results of search_papers_by_title that agree on the
\* first-three-words criterion, a record whose title contains more of the
\* query's words comes before one whose title contains fewer, and among
\* those that agree on the count too the newer publication date comes first.
C22_MoreWordsThenNewerFirst ==
    res.op = "search_papers_by_title" =>
        \A i, j \in 1..Len(res.out) :
            LET q == strip(lower(res.title_query))
            IN  (InFirstThreeWords(q, res.out[i].title) = InFirstThreeWords(q, res.out[j].title)) =>
                    /\ WordsInTitle(q, res.out[i].title) > WordsInTitle(q, res.out[j].title)
                          => i < j
                    /\ (/\ WordsInTitle(q, res.out[i].title) = WordsInTitle(q, res.out[j].title)
                        /\ str_less(res.out[j].published, res.out[i].published))
                          => i < j

C22_Witness ==
    /\ res.op = "search_papers_by_title"
    /\ \E i, j \in 1..Len(res.out) :
          /\ i < j
          /\ InFirstThreeWords(strip(lower(res.title_query)), res.out[i].title)
          /\ InFirstThreeWords(strip(lower(res.title_query)), res.out[j].title)
          /\ str_less(res.out[j].published, res.out[i].published)

\* C23: a search that succeeds makes exactly one save, of the collection as
\* it is after all candidates are processed, also when no candidate is new
\* or there is none; paper_ids holds the identifier of every candidate in
\* the adapter's order and total_found is its length.
C23_OneSaveAllIds ==
    [][(res'.op = "search_papers" /\ res'.exc = "") =>
          /\ clock' = clock + 1
          /\ files'[get_topic_directory(strip(res'.topic))].kind = "object"
          /\ Keys(files'[get_topic_directory(strip(res'.topic))].entries)
                = Keys(res'.saved_papers)
          /\ {res'.papers[i].short_id : i \in 1..Len(res'.papers)} \subseteq Keys(res'.saved_papers)
          /\ res'.out.paper_ids = [i \in 1..Len(res'.papers) |-> res'.papers[i].short_id]
          /\ res'.out.total_found = Len(res'.out.paper_ids)]_vars

C23_Witness ==
    /\ res.op = "search_papers"
    /\ res.exc = ""
    /\ clock = 2
    /\ res.out.new_papers_count = 0
    /\ Len(res.out.paper_ids) = 2

\* C24 as stated: a search called with max_results above the limit of the
\* tool's configuration does not fail and runs with max_results equal to
\* the limit.
C24_AboveLimitIsLimited ==
    (/\ res.op = "search_papers"
     /\ res.max_results # None
     /\ config # None
     /\ res.max_results[1] > config[1].arxiv_max_results_limit) =>
        /\ res.exc = ""
        /\ res.request # None
        /\ res.request[1].max_results = config[1].arxiv_max_results_limit

\* C30: set_config raises on a configuration that does not validate and
\* leaves the installed one; it installs one that validates, and get_config
\* returns the installed configuration, which no call but set_config and
\* reload_config replaces.
C30_InstallAfterValidate ==
    [][/\ (res'.op = "set_config" /\ <<res, config>>' # <<res, config>>) =>
             /\ res'.exc # "" <=> validate(res'.arg) # ""
             /\ res'.exc # "" => config' = config
             /\ res'.exc = "" => config' = Some(res'.arg)
       /\ (res'.op = "get_config" /\ config # None /\ <<res, config>>' # <<res, config>>) =>
             /\ res'.exc = ""
             /\ res'.out = config[1]
             /\ config' = config
       /\ (res'.op \notin {"set_config", "get_config", "reload_config"}) =>
             config' = config]_vars

C30_Witness ==
    /\ res.op = "set_config"
    /\ res.exc = "ValueError"
    /\ config # None
    /\ validate(config[1]) = ""
    /\ config[1] # EnvConfig

\* the label list_all_topics gives for a directory
LabelOf(d) == title_case(replace(d, <<"_">>, <<" ">>))

\* C25: for every directory a save has made, the Topic Namer maps the label
\* that list_all_topics gives for it back to the directory, and a reload by
\* that label (as in get_topic_stats and search_papers_by_title) gives the
\* collection stored in the directory.
C25_LabelReadsDirectory ==
    \A d \in topic_dirs :
        files[d].kind = "object" =>
            /\ get_topic_directory(LabelOf(d)) = d
            /\ Keys(load_papers_database(LabelOf(d)).value.papers) = persisted_ids(d)
            /\ get_topic_stats(LabelOf(d)).value.paper_count = Cardinality(persisted_ids(d))

\* C26: after a search that succeeds, the collection file is in a
\* subdirectory directly beneath the store root, list_all_topics includes
\* the topic and find_paper_across_topics finds the records saved.
C26_SavedBeneathRoot ==
    (res.op = "search_papers" /\ res.exc = "") =>
        LET d == get_topic_directory(strip(res.topic))
        IN  /\ d \in topic_dirs
            /\ LabelOf(d) \in Range(list_all_topics)
            /\ \A order \in DirOrders : \A id \in Keys(res.saved_papers) :
                  find_paper_across_topics(id, order) # None

\* what load_papers_database returns when the collection file is f
LoadedFrom(f) ==
    IF load_from_file(f).exc = "" THEN load_from_file(f).value ELSE EmptyDb

\* C27: a search under a topic, whether it succeeds or fails, leaves what
\* load returns for every topic whose Topic Namer output is another.
C27_OtherTopicsUntouched ==
    [][res'.op = "search_papers" =>
          \A U \in {TopicStr[k] : k \in DOMAIN TopicStr} :
              (/\ sanitize_filename(strip(U)) # sanitize_filename(strip(res'.topic))
               /\ get_topic_directory(U) \in DOMAIN files)
                  => LoadedFrom(files'[get_topic_directory(U)])
                        = LoadedFrom(files[get_topic_directory(U)])]_vars

\* the records a collection file holds
PersistedEntries(f) == IF f.kind = "object" THEN f.entries ELSE <<>>

\* C28: a search that fails leaves the persisted collection of its topic as
\* it was: no candidate is stored and no stored record is lost.
C28_FailedSearchKeepsCollection ==
    [][(res'.op = "search_papers" /\ res'.exc # "") =>
          PersistedEntries(files'[get_topic_directory(strip(res'.topic))])
              = PersistedEntries(files[get_topic_directory(strip(res'.topic))])]_vars

\* find_paper_across_topics over the files fs, scanning the directories of
\* order that are in ds
RECURSIVE FindIn(_, _, _, _)
FindIn(fs, ds, paper_id, order) ==
    IF order = <<>> THEN None
    ELSE IF Head(order) \notin ds \/ fs[Head(order)].kind = "missing"
         THEN FindIn(fs, ds, paper_id, Tail(order))
    ELSE IF load_from_file(fs[Head(order)]).exc # ""
         THEN FindIn(fs, ds, paper_id, Tail(order))
    ELSE IF get_paper(load_from_file(fs[Head(order)]).value, paper_id) # None
         THEN get_paper(load_from_file(fs[Head(order)]).value, paper_id)
    ELSE FindIn(fs, ds, paper_id, Tail(order))

====
